---- MODULE Spec2Model ----
(***************************************************************************)
(* PocketKafka storage layer: LogSegment (src/storage/segment.py) and      *)
(* Partition (src/storage/partition.py).                                   *)
(*                                                                         *)
(* A log file is the sequence of its bytes; a frame is a 4-byte big-endian *)
(* length followed by the body.  A segment object is a record holding the  *)
(* fields of LogSegment plus the position of its log file cursor; the      *)
(* files themselves live in log_files / index_files, keyed by base_offset  *)
(* (the file name), so two segment objects with the same base_offset share *)
(* one file, as they do on disk.                                           *)
(***************************************************************************)
EXTENDS Integers, Sequences, FiniteSets, TLC

(* ------------------------------- bounds -------------------------------- *)
\* number of produce calls that return in one behaviour
MaxProduced == 3
\* payloads are the byte strings of length <= MaxPayloadLen over PayloadBytes
MaxPayloadLen == 1
\* segment_size_limit ranges over 0..MaxLimit and the default limit
MaxLimit == 5
\* LogSegment.INDEX_INTERVAL (4096 in the source), scaled to the payload sizes:
\* the longest frame alone reaches it, the shortest one does not
INDEX_INTERVAL == 5

\* Partition.SEGMENT_SIZE_LIMIT, the default segment_size_limit (1 * 1024 * 1024)
SEGMENT_SIZE_LIMIT == 1048576

\* the byte value of payload bodies; length prefixes add the bytes 0..MaxPayloadLen
PayloadBytes == {1}
Payloads == UNION {[1..n -> PayloadBytes] : n \in 0..MaxPayloadLen}
Limits == (0..MaxLimit) \cup {SEGMENT_SIZE_LIMIT}
\* the limit tried together with a crash: segments of one or two frames
TornLimits == {MaxLimit}

VARIABLES
    segment_size_limit, \* Partition.segment_size_limit
    log_files,          \* directory: base_offset -> bytes of {base:019d}.log
    index_files,        \* directory: base_offset -> entries of {base:019d}.index
    is_open,            \* a Partition object is open on the directory
    closed_segments,    \* Partition.closed_segments
    active_segment,     \* Partition.active_segment
    next_offset,        \* Partition.next_offset
    next_id,            \* number of LogSegment objects this Partition made, + 1
    produced,           \* history: <<offset returned, payload>> of each produce
    torn,               \* history: a produce call was cut short by a crash
    last,               \* history: the last call, its argument and its result
    topics,             \* server.topics: the registered keys "{topic}-{partition}"
    calls,              \* the produce call in flight on each thread
    others              \* key -> directory and Partition of the other topics

vars == <<segment_size_limit, log_files, index_files, is_open, closed_segments,
          active_segment, next_offset, next_id, produced, torn, last, topics,
          calls, others>>

\* threads that call produce on the same Partition object
Threads == {1, 2}

(* --------------------------- byte-level helpers ------------------------ *)
Min(a, b) == IF a < b THEN a ELSE b

\* struct.pack(">I", n)
Pack(n) ==
    << (n \div 16777216) % 256, (n \div 65536) % 256, (n \div 256) % 256, n % 256 >>

\* struct.unpack(">I", b)[0]
Unpack(b) == b[1] * 16777216 + b[2] * 65536 + b[3] * 256 + b[4]

\* file.read(n) with the cursor at pos (0-based): at most n bytes, fewer at EOF
FileRead(f, pos, n) == SubSeq(f, pos + 1, Min(pos + n, Len(f)))

\* the bytes append() writes for one message
Frame(message) == Pack(Len(message)) \o message

\* sorted(partition_dir.glob("*.log")), as the base offsets in ascending order
RECURSIVE SortedBases(_)
SortedBases(S) ==
    IF S = {} THEN << >>
    ELSE LET m == CHOOSE x \in S : \A y \in S : x <= y
         IN  << m >> \o SortedBases(S \ {m})

\* open(path, 'ab+'): the file is created empty when it does not exist
EnsureFile(files, base) ==
    [b \in (DOMAIN files) \cup {base} |->
        IF b \in DOMAIN files THEN files[b] ELSE << >>]

(* ------------------------------ LogSegment ----------------------------- *)
\* the while loop of _recover_offset: read 4 bytes, stop when fewer came,
\* else seek over the declared body length (seeking past EOF is allowed)
RECURSIVE RecoverScan(_, _, _)
RecoverScan(f, pos, message_count) ==
    LET length_bytes == FileRead(f, pos, 4)
    IN  IF Len(length_bytes) < 4
        THEN message_count
        ELSE RecoverScan(f, pos + 4 + Unpack(length_bytes), message_count + 1)
\* _recover_offset that leaves current_offset at base_offset
RecoverOffsetNoScan(base_offset, f) == base_offset

\* _recover_offset: current_offset after the scan
RecoverOffset(base_offset, f) == base_offset + RecoverScan(f, 0, 0)

\* LogSegment.__init__ on a log file with contents f
NewSegment(base_offset, f, id) ==
    [ base_offset            |-> base_offset,
      current_offset         |-> RecoverOffset(base_offset, f),
      bytes_since_last_index |-> 0,
      pos                    |-> Len(f),
      id                     |-> id ]

\* append(): does this call write an index entry
IndexDue(bytes_since_last_index) == bytes_since_last_index >= INDEX_INTERVAL

\* _write_index_entry(offset, file_position)
IndexEntry(seg, offset, file_position) ==
    [ relative_offset |-> offset - seg.base_offset, file_position |-> file_position ]

\* append() that hands out the offset after current_offset
AssignedOffsetAhead(seg) == seg.current_offset + 1

\* append(): the offset assigned to the message
AssignedOffset(seg) == seg.current_offset

\* append(): the segment object after the call; f is the log file before it
SegmentAfterAppend(seg, f, message) ==
    LET bytes_written == 4 + Len(message)
        acc == seg.bytes_since_last_index + bytes_written
    IN  [ seg EXCEPT
            !.current_offset = seg.current_offset + 1,
            !.bytes_since_last_index = IF IndexDue(acc) THEN 0 ELSE acc,
            !.pos = Len(f) + bytes_written ]

\* append(): the log file after the call ('ab+' writes go to the end of file)
LogAfterAppend(f, message) == f \o Frame(message)

\* append(): the index file after the call; tell() is the cursor position
IndexAfterAppend(ix, seg, message) ==
    LET file_position == seg.pos
        acc == seg.bytes_since_last_index + 4 + Len(message)
    IN  IF IndexDue(acc)
        THEN Append(ix, IndexEntry(seg, seg.current_offset, file_position))
        ELSE ix

\* the while loop of read(): result kind, body and cursor position afterwards
RECURSIVE ReadScan(_, _, _, _)
ReadScan(f, pos, current_scan_offset, offset) ==
    LET length_bytes == FileRead(f, pos, 4)
    IN  IF Len(length_bytes) < 4
        THEN [kind |-> "corrupt", value |-> << >>, pos |-> pos + Len(length_bytes)]
        ELSE LET message_length == Unpack(length_bytes)
                 message == FileRead(f, pos + 4, message_length)
             IN  IF Len(message) < message_length
                 THEN [kind |-> "corrupt", value |-> << >>,
                       pos |-> pos + 4 + Len(message)]
                 ELSE IF current_scan_offset = offset
                      THEN [kind |-> "ok", value |-> message,
                            pos |-> pos + 4 + message_length]
                      ELSE ReadScan(f, pos + 4 + message_length,
                                    current_scan_offset + 1, offset)

\* read() whose range check admits current_offset
InSegmentRangeInclusive(seg, offset) ==
    seg.base_offset <= offset /\ offset <= seg.current_offset

\* read(): the range check
InSegmentRange(seg, offset) ==
    seg.base_offset <= offset /\ offset < seg.current_offset
\* read() whose scan counter starts one too high
SegmentReadOffByOne(seg, f, offset) ==
    IF ~InSegmentRange(seg, offset)
    THEN [kind |-> "range", value |-> << >>, pos |-> seg.pos]
    ELSE ReadScan(f, 0, seg.base_offset + 1, offset)

\* LogSegment.read(offset)
SegmentRead(seg, f, offset) ==
    IF ~InSegmentRange(seg, offset)
    THEN [kind |-> "range", value |-> << >>, pos |-> seg.pos]
    ELSE ReadScan(f, 0, seg.base_offset, offset)

(* ------------------------------- Partition ----------------------------- *)
EmptyDir == [b \in {} |-> << >>]

\* _should_roll_segment that counts the length prefix of the coming frame
ShouldRollEarly(f, limit) == Len(f) + 4 >= limit

\* _should_roll_segment with a strict comparison
ShouldRollStrict(f, limit) == Len(f) > limit

\* _should_roll_segment: the log file of the active segment exists from the
\* moment the segment object is made, so only the size comparison remains
ShouldRollSegment(f, limit) == Len(f) >= limit

\* _load_segments, the for loop: one LogSegment per log file, in sorted order
LoadedSegments(files) ==
    LET bases == SortedBases(DOMAIN files)
    IN  [i \in 1..Len(bases) |-> NewSegment(bases[i], files[bases[i]], i)]

\* _load_segments, lines 94-97: the last loaded segment becomes the active one
LoadedActive(segs) == segs[Len(segs)]
\* _load_segments that loses the first segment
LoadedClosedDroppingFirst(segs) == SubSeq(segs, 2, Len(segs) - 1)

LoadedClosed(segs) == SubSeq(segs, 1, Len(segs) - 1)

\* Partition.__init__ on a directory holding the log files `files`
OpenPartition(files, ixfiles) ==
    LET segs == LoadedSegments(files)
    IN  IF Len(segs) = 0
        THEN [ closed |-> << >>,
               active |-> NewSegment(0, << >>, 1),
               next_offset |-> 0,
               next_id |-> 2,
               files |-> EnsureFile(files, 0),
               ixfiles |-> EnsureFile(ixfiles, 0) ]
        ELSE [ closed |-> LoadedClosed(segs),
               active |-> LoadedActive(segs),
               next_offset |-> LoadedActive(segs).current_offset,
               next_id |-> Len(segs) + 1,
               files |-> files,
               ixfiles |-> ixfiles ]
\* produce() that starts the new segment one offset too far
RollBaseOffsetSkipping(n) == n + 1

\* produce(): base_offset handed to _create_new_segment when rolling, n being
\* self.next_offset
RollBaseOffset(n) == n

\* produce() that stores the returned offset as next_offset
NextOffsetNotAdvanced(offset) == offset

\* produce(), line 156
NextOffsetAfter(offset) == offset + 1

\* _create_new_segment that keeps only the segment it has just closed
ClosedAfterRollReplacing(closed, active) == << active >>

\* _create_new_segment: the closed list after the roll
ClosedAfterRoll(closed, active) == Append(closed, active)

\* the Partition object and its directory as one value, shaped as the result
\* of OpenPartition
PState ==
    [ closed |-> closed_segments, active |-> active_segment,
      next_offset |-> next_offset, next_id |-> next_id,
      files |-> log_files, ixfiles |-> index_files ]

\* Partition.produce(message) on the partition st: the partition afterwards
\* and the offset returned
ProduceOn(st, limit, message) ==
    LET roll == ShouldRollSegment(st.files[st.active.base_offset], limit)
        base == RollBaseOffset(st.next_offset)
        files1 == IF roll THEN EnsureFile(st.files, base) ELSE st.files
        ix1 == IF roll THEN EnsureFile(st.ixfiles, base) ELSE st.ixfiles
        active1 == IF roll THEN NewSegment(base, files1[base], st.next_id)
                   ELSE st.active
        b == active1.base_offset
        offset == AssignedOffset(active1)
    IN  [ closed |-> IF roll THEN ClosedAfterRoll(st.closed, st.active)
                     ELSE st.closed,
          active |-> SegmentAfterAppend(active1, files1[b], message),
          next_offset |-> NextOffsetAfter(offset),
          next_id |-> IF roll THEN st.next_id + 1 ELSE st.next_id,
          files |-> [files1 EXCEPT ![b] = LogAfterAppend(@, message)],
          ixfiles |-> [ix1 EXCEPT ![b] = IndexAfterAppend(@, active1, message)],
          offset |-> offset ]

\* Partition.produce(message) in a process that dies inside append(), after
\* only the first k bytes of the frame reached the log file: the directory
TornProduceOn(st, limit, message, k) ==
    LET roll == ShouldRollSegment(st.files[st.active.base_offset], limit)
        base == RollBaseOffset(st.next_offset)
        files1 == IF roll THEN EnsureFile(st.files, base) ELSE st.files
        b == IF roll THEN base ELSE st.active.base_offset
    IN  [ files |-> [files1 EXCEPT ![b] = @ \o SubSeq(Frame(message), 1, k)],
          ixfiles |-> IF roll THEN EnsureFile(st.ixfiles, base) ELSE st.ixfiles ]

\* consume(): the range check of line 176
OffsetInPartition(st, offset) == 0 <= offset /\ offset < st.next_offset

\* consume(): position in closed_segments of the first closed segment whose
\* range holds the offset, Len(closed_segments) + 1 for the active segment,
\* 0 when no segment claims it
ConsumeTarget(st, offset) ==
    LET hits == {i \in 1..Len(st.closed) : InSegmentRange(st.closed[i], offset)}
    IN  IF hits # {}
        THEN CHOOSE i \in hits : \A j \in hits : i <= j
        ELSE IF InSegmentRange(st.active, offset)
             THEN Len(st.closed) + 1
             ELSE 0

\* Partition.consume(offset) on the partition st: result kind, body, the
\* segment read (0: none) and the position of its cursor afterwards
ConsumeOn(st, offset) ==
    IF ~OffsetInPartition(st, offset)
    THEN [kind |-> "range", value |-> << >>, pos |-> 0, target |-> 0]
    ELSE LET t == ConsumeTarget(st, offset)
         IN  IF t = 0
             THEN [kind |-> "notfound", value |-> << >>, pos |-> 0, target |-> 0]
             ELSE LET seg == IF t <= Len(st.closed) THEN st.closed[t]
                             ELSE st.active
                      r == SegmentRead(seg, st.files[seg.base_offset], offset)
                  IN  [kind |-> r.kind, value |-> r.value, pos |-> r.pos,
                       target |-> t]

\* Partition.consume(offset) on the open partition
ConsumeResult(offset) == ConsumeOn(PState, offset)

\* the segment lists after consume(offset): read() moved one file cursor
ClosedAfterConsume(st, r) ==
    IF r.target \in 1..Len(st.closed)
    THEN [st.closed EXCEPT ![r.target].pos = r.pos]
    ELSE st.closed

\* a read() that advances the current_offset of the active segment
ActiveAfterConsumeCounting(st, r) ==
    IF r.target = Len(st.closed) + 1
    THEN [st.active EXCEPT !.pos = r.pos, !.current_offset = @ + 1]
    ELSE st.active

ActiveAfterConsume(st, r) ==
    IF r.target = Len(st.closed) + 1
    THEN [st.active EXCEPT !.pos = r.pos]
    ELSE st.active

\* get_segment_count() that leaves the active segment out
GetSegmentCountClosedOnly(st) == Len(st.closed)

\* get_segment_count(): active_segment is never None once __init__ returned
GetSegmentCount(st) == Len(st.closed) + 1

\* the entry of get_segment_info for one segment
SegmentInfoEntry(st, seg, status) ==
    [ base_offset |-> seg.base_offset,
      current_offset |-> seg.current_offset,
      size_bytes |-> Len(st.files[seg.base_offset]),
      status |-> status ]

\* Partition.get_segment_info()
SegmentInfoOn(st) ==
    [ total_segments |-> GetSegmentCount(st),
      next_offset |-> st.next_offset,
      segments |-> [i \in 1..Len(st.closed) |->
                        SegmentInfoEntry(st, st.closed[i], "closed")]
                   \o << SegmentInfoEntry(st, st.active, "active") >> ]

(* ------------------------------- actions ------------------------------- *)
\* the info field of a call that is not get_segment_info
NoInfo == [total_segments |-> 0, next_offset |-> 0, segments |-> << >>]

\* a call record: operation, offset (argument or result), payload, result kind
Call(op, offset, payload, kind) ==
    [op |-> op, offset |-> offset, payload |-> payload, kind |-> kind,
     info |-> NoInfo, topic |-> << >>]

NoCall == Call("open", -1, << >>, "ok")

\* server.topics without any entry
NoTopics == [k \in {} |-> << >>]

\* no partition directory besides the one of the variables above
NoPartitions == [k \in {} |-> << >>]

\* no produce call is in flight on either thread
IdleCalls == [t \in Threads |-> [pc |-> "idle", message |-> << >>, seg |-> 0,
                                 offset |-> -1, overlap |-> FALSE]]

SetPState(st) ==
    /\ closed_segments' = st.closed
    /\ active_segment' = st.active
    /\ next_offset' = st.next_offset
    /\ next_id' = st.next_id
    /\ log_files' = st.files
    /\ index_files' = st.ixfiles

InitPartition(limits) ==
    /\ segment_size_limit \in limits
    /\ produced = << >>
    /\ torn = FALSE
    /\ last = NoCall
    /\ topics = NoTopics
    /\ calls = IdleCalls
    /\ others = NoPartitions

\* Partition(...) on an empty directory, segment_size_limit being one of limits
InitOn(limits) ==
    LET st == OpenPartition(EmptyDir, EmptyDir)
    IN  /\ InitPartition(limits)
        /\ log_files = st.files
        /\ index_files = st.ixfiles
        /\ is_open = TRUE
        /\ closed_segments = st.closed
        /\ active_segment = st.active
        /\ next_offset = st.next_offset
        /\ next_id = st.next_id

Init == InitOn(Limits)

\* Partition(topic, partition_id, data_dir, segment_size_limit) on the
\* directory a closed (or crashed) Partition left behind
Open ==
    /\ ~is_open
    /\ SetPState(OpenPartition(log_files, index_files))
    /\ is_open' = TRUE
    /\ last' = NoCall
    /\ UNCHANGED <<segment_size_limit, others, produced, torn, topics, calls>>

\* Partition.close()
Close ==
    /\ is_open
    /\ is_open' = FALSE
    /\ last' = Call("close", -1, << >>, "ok")
    /\ UNCHANGED <<segment_size_limit, others, log_files, index_files, closed_segments,
                   active_segment, next_offset, next_id, produced, torn,
                   topics, calls>>

\* Partition.produce(message)
Produce(message) ==
    /\ is_open
    /\ Len(produced) < MaxProduced
    /\ LET r == ProduceOn(PState, segment_size_limit, message)
       IN  /\ SetPState(r)
           /\ produced' = Append(produced, [offset |-> r.offset, payload |-> message])
           /\ last' = Call("produce", r.offset, message, "ok")
    /\ UNCHANGED <<segment_size_limit, others, is_open, torn, topics, calls>>

\* Partition.consume(offset)
Consume(offset) ==
    /\ is_open
    /\ LET r == ConsumeOn(PState, offset)
       IN  /\ closed_segments' = ClosedAfterConsume(PState, r)
           /\ active_segment' = ActiveAfterConsume(PState, r)
           /\ last' = Call("consume", offset, r.value, r.kind)
    /\ UNCHANGED <<segment_size_limit, others, log_files, index_files, is_open,
                   next_offset, next_id, produced, torn, topics, calls>>

\* Partition.get_segment_info()
GetSegmentInfo ==
    /\ is_open
    /\ last' = [Call("info", -1, << >>, "ok") EXCEPT !.info = SegmentInfoOn(PState)]
    /\ UNCHANGED <<segment_size_limit, others, log_files, index_files, is_open,
                   closed_segments, active_segment, next_offset, next_id,
                   produced, torn, topics, calls>>

\* Partition.produce(message) in a process that dies inside append(), after
\* only the first k bytes of the frame reached the log file
TornProduce(message, k) ==
    /\ is_open
    /\ ~torn
    /\ k \in 1..(Len(Frame(message)) - 1)
    /\ LET r == TornProduceOn(PState, segment_size_limit, message, k)
       IN  /\ log_files' = r.files
           /\ index_files' = r.ixfiles
    /\ is_open' = FALSE
    /\ torn' = TRUE
    /\ last' = Call("crash", -1, message, "ok")
    /\ UNCHANGED <<segment_size_limit, others, closed_segments, active_segment,
                   next_offset, next_id, produced, topics, calls>>

\* offsets tried by consume: below the range, inside it, and next_offset
ConsumeOffsets == -1..next_offset

Next ==
    \/ Open
    \/ Close
    \/ \E message \in Payloads : Produce(message)
    \/ \E offset \in ConsumeOffsets : Consume(offset)
    \/ GetSegmentInfo

Spec == Init /\ [][Next]_vars

\* the same program on a machine that can crash in the middle of a write
\* (one crash in a behaviour)
NextTorn ==
    \/ Next
    \/ \E message \in Payloads : \E k \in 1..(3 + MaxPayloadLen) :
          TornProduce(message, k)

InitTorn == InitOn(TornLimits)

SpecTorn == InitTorn /\ [][NextTorn]_vars

(* --------------------------- api/server.py ----------------------------- *)
\* get_or_create_partition: the segment_size_limit it passes to Partition
\* (10 * 1024)
ServerSegmentSizeLimit == 10240

\* topic names, as character sequences
TopicA == << "a" >>
TopicAB == << "a", "-", "b" >>
ServerTopics == {TopicA, TopicAB}

\* f"{topic}-{partition}" for partition 0, the only one produce ever uses
Key(topic) == topic \o << "-", "0" >>

\* str.startswith
StartsWith(str, prefix) ==
    Len(str) >= Len(prefix) /\ SubSeq(str, 1, Len(prefix)) = prefix

\* the Partition object and directory of a topic: the variables of the
\* storage layer for TopicA, an entry of others for any other topic
PartitionAt(topic) ==
    IF topic = TopicA THEN PState ELSE others[Key(topic)]

\* the partition directory data/{topic}-0 as process start finds it
DirectoryOf(topic) ==
    IF topic = TopicA THEN [files |-> log_files, ixfiles |-> index_files]
    ELSE IF Key(topic) \in DOMAIN others
         THEN [files |-> others[Key(topic)].files,
               ixfiles |-> others[Key(topic)].ixfiles]
         ELSE [files |-> EmptyDir, ixfiles |-> EmptyDir]

\* the Partition st becomes the state of the topic's partition
StorePartition(topic, st) ==
    IF topic = TopicA
    THEN /\ SetPState(st)
         /\ UNCHANGED others
    ELSE /\ others' = [k \in DOMAIN others \cup {Key(topic)} |->
                          IF k = Key(topic)
                          THEN [closed |-> st.closed, active |-> st.active,
                                next_offset |-> st.next_offset,
                                next_id |-> st.next_id,
                                files |-> st.files, ixfiles |-> st.ixfiles]
                          ELSE others[k]]
         /\ UNCHANGED <<closed_segments, active_segment, next_offset,
                        next_id, log_files, index_files>>

\* a call record of a request that names a topic
TopicCall(topic, op, offset, payload, kind) ==
    [Call(op, offset, payload, kind) EXCEPT !.topic = topic]

\* messages stored in the partitions of the other topics
RECURSIVE StoredIn(_)
StoredIn(keys) ==
    IF keys = {} THEN 0
    ELSE LET k == CHOOSE k \in keys : TRUE
         IN  others[k].next_offset + StoredIn(keys \ {k})

\* get_or_create_partition: the registry afterwards
TopicsWith(topic) ==
    IF Key(topic) \in DOMAIN topics THEN topics
    ELSE [k \in DOMAIN topics \cup {Key(topic)} |->
             IF k = Key(topic) THEN topic ELSE topics[k]]

\* get_or_create_partition: the registered Partition, or a new one made from
\* the partition directory
GetOrCreatePartition(topic) ==
    IF Key(topic) \in DOMAIN topics THEN PartitionAt(topic)
    ELSE OpenPartition(DirectoryOf(topic).files, DirectoryOf(topic).ixfiles)
             @@ [offset |-> -1]

\* consume endpoint: the exception raised inside its try block
ConsumeException(topic, offset) ==
    IF Key(topic) \notin DOMAIN topics
    THEN "HTTPException"
    ELSE IF ConsumeOn(PartitionAt(topic), offset).kind = "ok" THEN "none"
         ELSE "ValueError"

\* consume endpoint: the except clauses, in order; HTTPException is an
\* Exception and not a ValueError
ConsumeStatus(exception) ==
    IF exception = "none" THEN "200"
    ELSE IF exception = "ValueError" THEN "404"
    ELSE "500"

\* process start: no registry entry, no Partition object, an empty data dir
InitServer ==
    /\ segment_size_limit = ServerSegmentSizeLimit
    /\ log_files = EmptyDir
    /\ index_files = EmptyDir
    /\ is_open = FALSE
    /\ closed_segments = << >>
    /\ active_segment = NewSegment(0, << >>, 1)
    /\ next_offset = 0
    /\ next_id = 2
    /\ produced = << >>
    /\ torn = FALSE
    /\ last = Call("start", -1, << >>, "ok")
    /\ topics = NoTopics
    /\ calls = IdleCalls
    /\ others = NoPartitions

\* POST /produce
ApiProduce(topic, message) ==
    /\ Len(produced) + StoredIn(DOMAIN others) < MaxProduced
    /\ LET r == ProduceOn(GetOrCreatePartition(topic), segment_size_limit, message)
       IN  /\ StorePartition(topic, r)
           /\ produced' = IF topic = TopicA
                          THEN Append(produced, [offset |-> r.offset,
                                                 payload |-> message])
                          ELSE produced
           /\ last' = TopicCall(topic, "api_produce", r.offset, message, "200")
    /\ topics' = TopicsWith(topic)
    /\ is_open' = (is_open \/ topic = TopicA)
    /\ UNCHANGED <<segment_size_limit, torn, calls>>

\* GET /consume
ApiConsume(topic, offset) ==
    /\ LET exception == ConsumeException(topic, offset)
       IN  IF exception = "HTTPException"
           THEN /\ last' = TopicCall(topic, "api_consume", offset, << >>,
                                     ConsumeStatus(exception))
                /\ UNCHANGED <<closed_segments, active_segment, others,
                               log_files, index_files, next_offset, next_id>>
           ELSE LET st == PartitionAt(topic)
                    r == ConsumeOn(st, offset)
                IN  /\ StorePartition(topic,
                           [st EXCEPT !.closed = ClosedAfterConsume(st, r),
                                      !.active = ActiveAfterConsume(st, r)])
                    /\ last' = TopicCall(topic, "api_consume", offset, r.value,
                                         ConsumeStatus(exception))
    /\ UNCHANGED <<segment_size_limit, is_open, produced, torn, topics, calls>>

\* GET /topics/{topic}/info
ApiInfo(topic) ==
    /\ last' = IF Key(topic) \in DOMAIN topics
               THEN [TopicCall(topic, "api_info", -1, << >>, "200")
                        EXCEPT !.info = SegmentInfoOn(PartitionAt(topic))]
               ELSE TopicCall(topic, "api_info", -1, << >>, "404")
    /\ UNCHANGED <<segment_size_limit, others, log_files, index_files, is_open,
                   closed_segments, active_segment, next_offset, next_id,
                   produced, torn, topics, calls>>

\* GET /topics: the set of topic names of the registered partitions
ListedTopics == {topics[k] : k \in DOMAIN topics}

ListTopics ==
    /\ last' = [Call("list", Cardinality(ListedTopics), << >>, "200")
                   EXCEPT !.payload = ListedTopics]
    /\ UNCHANGED <<segment_size_limit, others, log_files, index_files, is_open,
                   closed_segments, active_segment, next_offset, next_id,
                   produced, torn, topics, calls>>

\* DELETE /topics/{topic}: the keys it closes and unregisters
KeysToDelete(topic) ==
    {k \in DOMAIN topics : StartsWith(k, topic \o << "-" >>)}

DeleteTopic(topic) ==
    /\ IF KeysToDelete(topic) = {}
       THEN /\ last' = TopicCall(topic, "delete", 0, << >>, "404")
            /\ UNCHANGED <<topics, is_open>>
       ELSE /\ last' = TopicCall(topic, "delete",
                                 Cardinality(KeysToDelete(topic)), << >>, "200")
            /\ topics' = [k \in DOMAIN topics \ KeysToDelete(topic) |-> topics[k]]
            /\ is_open' = (is_open /\ Key(TopicA) \notin KeysToDelete(topic))
    /\ UNCHANGED <<segment_size_limit, others, log_files, index_files,
                   closed_segments, active_segment, next_offset, next_id,
                   produced, torn, calls>>

\* the server process ends (shutdown_event closes every partition) and a new
\* one starts: the registry is a module global, empty at import
ServerRestart ==
    /\ topics' = NoTopics
    /\ is_open' = FALSE
    /\ last' = Call("start", -1, << >>, "ok")
    /\ UNCHANGED <<segment_size_limit, others, log_files, index_files,
                   closed_segments, active_segment, next_offset, next_id,
                   produced, torn, calls>>

\* POST /produce in a server process that dies inside append(), after only the
\* first k bytes of the frame reached the log file; a new process starts
ServerCrash(topic, message, k) ==
    /\ ~torn
    /\ k \in 1..(Len(Frame(message)) - 1)
    /\ LET r == TornProduceOn(GetOrCreatePartition(topic), segment_size_limit,
                              message, k)
       IN  /\ log_files' = r.files
           /\ index_files' = r.ixfiles
    /\ topics' = NoTopics
    /\ is_open' = FALSE
    /\ torn' = TRUE
    /\ last' = Call("start", -1, << >>, "ok")
    /\ UNCHANGED <<segment_size_limit, others, closed_segments, active_segment,
                   next_offset, next_id, produced, calls>>

\* offsets tried by GET /consume
ApiConsumeOffsets == -1..(Len(produced) + 1)

NextServer ==
    \/ \E topic \in ServerTopics : \E message \in Payloads :
          ApiProduce(topic, message)
    \/ \E topic \in ServerTopics : \E offset \in ApiConsumeOffsets :
          ApiConsume(topic, offset)
    \/ \E topic \in ServerTopics : ApiInfo(topic)
    \/ ListTopics
    \/ \E topic \in ServerTopics : DeleteTopic(topic)
    \/ ServerRestart
    \/ \E message \in Payloads : \E k \in 1..(3 + MaxPayloadLen) :
          ServerCrash(TopicA, message, k)

SpecServer == InitServer /\ [][NextServer]_vars

(* ------------------- produce calls on two threads ---------------------- *)
\* the limit tried with two threads: segments of one or two frames
RaceLimits == {MaxLimit}

\* the segment object with identity id
SegmentById(id) ==
    IF active_segment.id = id THEN active_segment
    ELSE LET i == CHOOSE i \in 1..Len(closed_segments) : closed_segments[i].id = id
         IN  closed_segments[i]

\* append(), lines 116-143: the segment object once the frame is written and
\* the index accumulator is updated; f is the log file before the write
SegmentAfterWrite(seg, f, message) ==
    LET bytes_written == 4 + Len(message)
        acc == seg.bytes_since_last_index + bytes_written
    IN  [ seg EXCEPT
            !.bytes_since_last_index = IF IndexDue(acc) THEN 0 ELSE acc,
            !.pos = Len(f) + bytes_written ]

\* append() that hands out current_offset without incrementing it
SegmentAfterAssignNoIncrement(seg) == seg

\* append(), lines 145-147: the segment object once the offset is assigned
SegmentAfterAssign(seg) == [seg EXCEPT !.current_offset = @ + 1]

\* the calls in flight
Running == {t \in Threads : calls[t].pc # "idle"}

\* thread t enters produce(message) and takes the size check of line 147
RaceCheck(t, message) ==
    /\ calls[t].pc = "idle"
    /\ Len(produced) + Cardinality(Running) < MaxProduced
    /\ calls' = [u \in Threads |->
                   IF u = t
                   THEN [pc |-> IF ShouldRollSegment(
                                       log_files[active_segment.base_offset],
                                       segment_size_limit)
                                THEN "create" ELSE "write",
                         message |-> message, seg |-> 0, offset |-> -1,
                         overlap |-> calls[t].overlap \/ Running # {}]
                   ELSE IF u \in Running
                        THEN [calls[u] EXCEPT !.overlap = TRUE]
                        ELSE calls[u]]
    /\ UNCHANGED <<segment_size_limit, others, log_files, index_files, is_open,
                   closed_segments, active_segment, next_offset, next_id,
                   produced, torn, last, topics>>

\* thread t runs _create_new_segment(base_offset=self.next_offset)
RaceCreate(t) ==
    /\ calls[t].pc = "create"
    /\ LET base == RollBaseOffset(next_offset)
           files1 == EnsureFile(log_files, base)
       IN  /\ log_files' = files1
           /\ index_files' = EnsureFile(index_files, base)
           /\ closed_segments' = ClosedAfterRoll(closed_segments, active_segment)
           /\ active_segment' = NewSegment(base, files1[base], next_id)
    /\ next_id' = next_id + 1
    /\ calls' = [calls EXCEPT ![t].pc = "write"]
    /\ UNCHANGED <<segment_size_limit, others, is_open, next_offset, produced, torn,
                   last, topics>>

\* thread t calls self.active_segment.append(message) and runs it up to the
\* index entry: the frame is in the file, the offset is not assigned yet
RaceWrite(t) ==
    /\ calls[t].pc = "write"
    /\ LET seg == active_segment
           b == seg.base_offset
       IN  /\ log_files' = [log_files EXCEPT ![b] = LogAfterAppend(@, calls[t].message)]
           /\ index_files' = [index_files EXCEPT
                                 ![b] = IndexAfterAppend(@, seg, calls[t].message)]
           /\ active_segment' = SegmentAfterWrite(seg, log_files[b], calls[t].message)
           /\ calls' = [calls EXCEPT ![t].pc = "assign", ![t].seg = seg.id]
    /\ UNCHANGED <<segment_size_limit, others, is_open, closed_segments, next_offset,
                   next_id, produced, torn, last, topics>>

\* thread t, inside append(): assigned_offset = self.current_offset and
\* self.current_offset += 1, on the segment object it is appending to
RaceAssign(t) ==
    /\ calls[t].pc = "assign"
    /\ LET seg == SegmentById(calls[t].seg)
       IN  /\ calls' = [calls EXCEPT ![t].pc = "update",
                                     ![t].offset = AssignedOffset(seg)]
           /\ IF active_segment.id = seg.id
              THEN /\ active_segment' = SegmentAfterAssign(seg)
                   /\ UNCHANGED closed_segments
              ELSE /\ closed_segments' =
                          [i \in 1..Len(closed_segments) |->
                              IF closed_segments[i].id = seg.id
                              THEN SegmentAfterAssign(seg)
                              ELSE closed_segments[i]]
                   /\ UNCHANGED active_segment
    /\ UNCHANGED <<segment_size_limit, others, log_files, index_files, is_open,
                   next_offset, next_id, produced, torn, last, topics>>

\* thread t, back in produce(): self.next_offset = offset + 1; return offset
RaceUpdate(t) ==
    /\ calls[t].pc = "update"
    /\ next_offset' = NextOffsetAfter(calls[t].offset)
    /\ produced' = Append(produced, [offset |-> calls[t].offset,
                                     payload |-> calls[t].message])
    /\ last' = Call("produce", calls[t].offset, calls[t].message, "ok")
    /\ calls' = [calls EXCEPT ![t].pc = "idle"]
    /\ UNCHANGED <<segment_size_limit, others, log_files, index_files, is_open,
                   closed_segments, active_segment, next_id, torn, topics>>

NextRace ==
    \E t \in Threads :
        \/ \E message \in Payloads : RaceCheck(t, message)
        \/ RaceCreate(t)
        \/ RaceWrite(t)
        \/ RaceAssign(t)
        \/ RaceUpdate(t)

InitRace == InitOn(RaceLimits)

SpecRace == InitRace /\ [][NextRace]_vars

TypeOK ==
    /\ is_open \in BOOLEAN
    /\ DOMAIN log_files = DOMAIN index_files
    /\ Len(produced) <= MaxProduced
    /\ torn \in BOOLEAN

(* ------------------------------ properties ----------------------------- *)
\* the step is a produce call that returned
ProduceStep == Len(produced') = Len(produced) + 1

\* the produce step moved the active segment to the closed list
RollStep == Len(closed_segments') = Len(closed_segments) + 1

ActiveLog == log_files[active_segment.base_offset]

SegmentCount == Len(closed_segments) + 1

\* C1: on a partition that started on an empty directory, for every limit and
\* after any produce and consume calls, consume(i) returns the i-th produced
\* payload for every i below the number of produced payloads
C1_ConsumeReturnsProduced ==
    is_open =>
        /\ \A i \in 1..Len(produced) :
              /\ ConsumeResult(i - 1).kind = "ok"
              /\ ConsumeResult(i - 1).value = produced[i].payload
        /\ (last.op = "consume" /\ 0 <= last.offset /\ last.offset < Len(produced))
              => /\ last.kind = "ok"
                 /\ last.payload = produced[last.offset + 1].payload

C1_Witness ==
    /\ is_open
    /\ last.op = "consume" /\ last.offset = 1 /\ last.kind = "ok"
    /\ Len(produced) = MaxProduced
    /\ Len(closed_segments) >= 1
    /\ produced[1].payload = << >>

\* C2: every produce returns the value next_offset had before the call and
\* leaves next_offset one larger; the k-th produce returns k-1, also across
\* rolls and close/reopen
C2_OffsetsSequential ==
    [][ProduceStep =>
          /\ last'.op = "produce"
          /\ last'.offset = next_offset
          /\ next_offset' = next_offset + 1
          /\ \A k \in 1..Len(produced') : produced'[k].offset = k - 1]_vars

C2_Witness ==
    /\ last.op = "produce" /\ last.offset = MaxProduced - 1
    /\ Len(closed_segments) >= 1
    /\ next_offset = MaxProduced

\* C3: a partition that produced K messages, was closed and is reopened on the
\* same directory has next_offset = K, and consume(i) for every i < K returns
\* what it returned before closing
C3_RecoveryIdempotent ==
    [][(~is_open /\ is_open') =>
          /\ next_offset' = Len(produced)
          /\ \A i \in 0..(Len(produced) - 1) :
                LET before == ConsumeOn(PState, i)
                    after == ConsumeOn(PState', i)
                IN  /\ after.kind = before.kind
                    /\ after.value = before.value
                    /\ after.value = produced[i + 1].payload]_vars

C3_Witness ==
    /\ is_open /\ last.op = "open"
    /\ Len(produced) >= 2
    /\ Len(closed_segments) >= 1
    /\ next_offset = Len(produced)

\* C4: consume(produce(p)) returns p in every state of an open partition,
\* also one opened on a log that ends with an incomplete frame
C4_RoundTrip ==
    (is_open /\ last.op = "produce") =>
        /\ ConsumeResult(last.offset).kind = "ok"
        /\ ConsumeResult(last.offset).value = last.payload

\* C5: produce rolls exactly when the active log file has reached the limit at
\* the start of the call; the new active segment starts at next_offset and the
\* payload is its first frame; without a roll the payload goes to the existing
\* active segment and the segment count stays
C5_RollIffSizeReached ==
    [][ProduceStep =>
          /\ RollStep <=> Len(ActiveLog) >= segment_size_limit
          /\ RollStep =>
                /\ closed_segments' = Append(closed_segments, active_segment)
                /\ active_segment'.base_offset = next_offset
                /\ log_files'[active_segment'.base_offset] = Frame(last'.payload)
          /\ ~RollStep =>
                /\ closed_segments' = closed_segments
                /\ active_segment'.base_offset = active_segment.base_offset
                /\ active_segment'.id = active_segment.id
                /\ ActiveLog' = ActiveLog \o Frame(last'.payload)
                /\ SegmentCount' = SegmentCount]_vars

C5_Witness ==
    /\ last.op = "produce"
    /\ Len(closed_segments) = 1
    /\ closed_segments[1].current_offset = 2
    /\ active_segment.base_offset = 2
    /\ active_segment.current_offset = 3

\* start positions (0-based) of the complete frames of log file f, from pos on:
\* a frame is complete when its 4-byte length and its whole body are present
RECURSIVE FrameStarts(_, _)
FrameStarts(f, pos) ==
    IF pos + 4 > Len(f) THEN << >>
    ELSE LET n == Unpack(SubSeq(f, pos + 1, pos + 4))
         IN  IF pos + 4 + n > Len(f) THEN << >>
             ELSE << pos >> \o FrameStarts(f, pos + 4 + n)

CountCompleteFrames(f) == Len(FrameStarts(f, 0))

\* size of f up to the start of its last complete frame
SizeWithoutLastFrame(f) == FrameStarts(f, 0)[CountCompleteFrames(f)]

SegmentLog(seg) == log_files[seg.base_offset]

AllSegments == Append(closed_segments, active_segment)

SegmentIds(segs) == [i \in 1..Len(segs) |-> segs[i].id]

\* C6: the size check precedes the write: the produce that takes the active
\* log from below the limit to the limit or above is written into the current
\* active segment and only the next produce rolls; so for a limit >= 1 every
\* closed segment holds at least one frame, its log size is >= the limit and
\* its log size without its last frame is below the limit
C6_CheckBeforeWrite ==
    [][/\ (/\ ProduceStep
           /\ Len(ActiveLog) < segment_size_limit
           /\ Len(ActiveLog) + Len(Frame(last'.payload)) >= segment_size_limit)
          => /\ closed_segments' = closed_segments
             /\ active_segment'.base_offset = active_segment.base_offset
             /\ last'.offset = active_segment.current_offset
             /\ ActiveLog' = ActiveLog \o Frame(last'.payload)
       /\ (ProduceStep /\ Len(ActiveLog) >= segment_size_limit)
          => /\ RollStep
             /\ active_segment'.base_offset = last'.offset
       /\ segment_size_limit >= 1
          => \A i \in 1..Len(closed_segments') :
                LET f == log_files'[closed_segments'[i].base_offset]
                IN  /\ CountCompleteFrames(f) >= 1
                    /\ Len(f) >= segment_size_limit
                    /\ SizeWithoutLastFrame(f) < segment_size_limit]_vars

C6_Witness ==
    /\ last.op = "produce"
    /\ segment_size_limit >= 1
    /\ Len(closed_segments) = 1
    /\ CountCompleteFrames(SegmentLog(closed_segments[1])) = 2
    /\ SizeWithoutLastFrame(SegmentLog(closed_segments[1])) < segment_size_limit
    /\ active_segment.base_offset = 2

\* C7: once a segment is in the closed list it accepts no further writes: for
\* every limit >= 0 its log file and its current_offset stay what they were at
\* the moment of the roll (the start of the produce call that rolled it)
C7_ClosedNeverWritten ==
    [][(is_open /\ is_open') =>
          \A i \in 1..Len(closed_segments') :
             LET seg == closed_segments'[i]
             IN  /\ log_files'[seg.base_offset] = log_files[seg.base_offset]
                 /\ i <= Len(closed_segments)
                       => seg.current_offset = closed_segments[i].current_offset
                 /\ i > Len(closed_segments)
                       => seg.current_offset = active_segment.current_offset]_vars

\* C8: in every state of an open partition, for every limit >= 0, every
\* segment, closed or active, has current_offset = base_offset + the number of
\* complete frames in its log file
C8_CurrentOffsetCountsFrames ==
    is_open =>
        \A i \in 1..Len(AllSegments) :
            AllSegments[i].current_offset =
                AllSegments[i].base_offset
                    + CountCompleteFrames(SegmentLog(AllSegments[i]))

\* C9: in every state of an open partition the segments are in ascending
\* base_offset order and contiguous: each closed segment's current_offset is
\* the next segment's base_offset, the last closed one's is the active one's
C9_SegmentsContiguous ==
    is_open =>
        \A i \in 1..(Len(AllSegments) - 1) :
            /\ AllSegments[i].base_offset <= AllSegments[i + 1].base_offset
            /\ AllSegments[i].current_offset = AllSegments[i + 1].base_offset

C9_Witness ==
    /\ is_open
    /\ Len(closed_segments) >= 2
    /\ closed_segments[1].current_offset = closed_segments[2].base_offset
    /\ closed_segments[1].base_offset < closed_segments[2].base_offset

\* C10: an open partition always has one active segment, the most recently
\* created; the closed list only grows, by the active segment appended at its
\* end, only in a produce call whose size check is true; a closed segment
\* never becomes active again and no segment is closed twice
C10_SegmentLifecycle ==
    [][is_open' =>
          /\ active_segment'.id = next_id' - 1
          /\ \A i \in 1..Len(closed_segments') :
                /\ closed_segments'[i].id < active_segment'.id
                /\ \A j \in 1..Len(closed_segments') :
                      closed_segments'[i].id = closed_segments'[j].id => i = j
          /\ is_open =>
                /\ \/ /\ SegmentIds(closed_segments') = SegmentIds(closed_segments)
                      /\ active_segment'.id = active_segment.id
                   \/ /\ SegmentIds(closed_segments') =
                            Append(SegmentIds(closed_segments), active_segment.id)
                      /\ active_segment'.id = next_id
                      /\ ProduceStep
                      /\ Len(ActiveLog) >= segment_size_limit
                /\ \A i \in 1..Len(closed_segments) :
                      active_segment'.id # closed_segments[i].id]_vars

C10_Witness ==
    /\ is_open
    /\ last.op = "produce"
    /\ Len(closed_segments) >= 2
    /\ active_segment.id = Len(closed_segments) + 1

\* a step of Consume: the only action that records a "consume" call
ConsumeStep == last'.op = "consume"

\* what the claims say of a segment object: identity, base and offset counter
SegmentShape(seg) ==
    [id |-> seg.id, base_offset |-> seg.base_offset,
     current_offset |-> seg.current_offset]

SegmentShapes ==
    [i \in 1..(Len(closed_segments) + 1) |-> SegmentShape(AllSegments[i])]

\* C11: consume(offset) fails with the out-of-range error exactly when
\* offset < 0 or offset >= next_offset; consume(-1) and consume(next_offset)
\* always fail, consume(next_offset - 1) succeeds whenever next_offset > 0,
\* and a failing consume leaves next_offset, the segment lists and every
\* segment's current_offset unchanged.
C11_ConsumeRangeContract ==
    [][ /\ is_open =>
            /\ ConsumeResult(-1).kind = "range"
            /\ ConsumeResult(next_offset).kind = "range"
            /\ next_offset > 0 => ConsumeResult(next_offset - 1).kind = "ok"
        /\ ConsumeStep =>
            /\ last'.kind = "range" <=>
                   (last'.offset < 0 \/ last'.offset >= next_offset)
            /\ last'.kind # "ok" =>
                   /\ next_offset' = next_offset
                   /\ SegmentShapes' = SegmentShapes ]_vars

\* the boundary behind the last complete frame of f
LastFrameBoundary(f) ==
    IF CountCompleteFrames(f) = 0 THEN 0
    ELSE LET pos == SizeWithoutLastFrame(f)
         IN  pos + 4 + Unpack(SubSeq(f, pos + 1, pos + 4))

\* f ends with a truncated frame: a short prefix, or a prefix and a short body
TruncatedTail(f) == LastFrameBoundary(f) < Len(f)

\* C12: when a partition is opened on a log file that ends with a truncated
\* trailing frame (a length prefix of fewer than 4 bytes, or a full prefix and
\* a body shorter than declared), current_offset is base_offset + the number
\* of complete frames: the incomplete frame is not counted.
C12_RecoveryStopsAtTruncatedFrame ==
    (is_open /\ last.op = "open") =>
        \A i \in 1..Len(AllSegments) :
            TruncatedTail(SegmentLog(AllSegments[i])) =>
                AllSegments[i].current_offset =
                    AllSegments[i].base_offset
                        + CountCompleteFrames(SegmentLog(AllSegments[i]))

\* the body of the complete frame of f that starts at pos
FrameBody(f, pos) ==
    SubSeq(f, pos + 5, pos + 4 + Unpack(SubSeq(f, pos + 1, pos + 4)))

\* what read(offset) on segment seg has to give by the claim below
ExpectedRead(seg, offset) ==
    LET f == SegmentLog(seg)
        k == offset - seg.base_offset
    IN  IF offset < seg.base_offset \/ offset >= seg.current_offset
        THEN [kind |-> "range", value |-> << >>]
        ELSE IF k < CountCompleteFrames(f)
             THEN [kind |-> "ok", value |-> FrameBody(f, FrameStarts(f, 0)[k + 1])]
             ELSE [kind |-> "corrupt", value |-> << >>]

\* C13: read(offset) with base_offset <= offset < current_offset returns the
\* body of the frame at sequence position offset - base_offset, or fails with
\* the corrupt-segment error when a prefix or a body up to that frame cannot
\* be fully read; it never returns a partial body or another frame's body, and
\* it fails with the out-of-range error for every offset outside
\* [base_offset, current_offset).
C13_ReadDecodesSequentially ==
    is_open =>
        \A i \in 1..Len(AllSegments) :
            LET seg == AllSegments[i]
            IN  \A offset \in (seg.base_offset - 1)..seg.current_offset :
                    LET r == SegmentRead(seg, SegmentLog(seg), offset)
                        e == ExpectedRead(seg, offset)
                    IN  r.kind = e.kind /\ r.value = e.value

\* a consume has just failed on a frame that a crash cut short, in a segment
\* that also holds a complete frame
C13_Witness ==
    /\ is_open
    /\ last.op = "consume"
    /\ last.kind = "corrupt"
    /\ last.offset = active_segment.current_offset - 1
    /\ CountCompleteFrames(ActiveLog) >= 1
    /\ ConsumeResult(0).kind = "ok"

\* an append has just written an index entry into the active segment's index
IndexEntryStep ==
    /\ ProduceStep
    /\ Len(index_files'[active_segment'.base_offset]) >
           IF active_segment'.base_offset \in DOMAIN index_files
           THEN Len(index_files[active_segment'.base_offset])
           ELSE 0

\* the entry written last into the active segment's index
LastIndexEntry ==
    LET ix == index_files[active_segment.base_offset] IN ix[Len(ix)]

\* C14: in every segment's index file, after any serialized sequence of
\* appends, reads and close/reopen, the entries are strictly increasing in
\* relative_offset and strictly increasing in file_position in the order they
\* were written.
C14_IndexStrictlyIncreasing ==
    \A b \in DOMAIN index_files :
        \A i \in 1..(Len(index_files[b]) - 1) :
            /\ index_files[b][i].relative_offset
                   < index_files[b][i + 1].relative_offset
            /\ index_files[b][i].file_position
                   < index_files[b][i + 1].file_position

\* C15: every index entry written by append describes the frame appended by
\* that call: relative_offset is the frame's offset minus base_offset and
\* file_position is the byte position at which the frame's length prefix
\* starts, for any interleaving of appends with reads on the same segment.
C15_IndexEntryDescribesFrame ==
    [][ IndexEntryStep =>
            LET f == log_files'[active_segment'.base_offset]
            IN  /\ LastIndexEntry'.relative_offset =
                       last'.offset - active_segment'.base_offset
                /\ LastIndexEntry'.file_position = SizeWithoutLastFrame(f) ]_vars

\* a step of GetSegmentInfo: the only action that records an "info" call
InfoStep == last'.op = "info"

\* C16: get_segment_info is a pure read: it changes no partition or segment
\* state, and its snapshot has the partition's next_offset, total_segments
\* equal to the number of listed segments, the closed segments in list order
\* with status "closed", then exactly one "active" entry, the active segment,
\* in last position, each with its segment's base_offset and current_offset.
C16_SegmentInfoPureRead ==
    [][ InfoStep =>
            LET info == last'.info
                n == Len(closed_segments)
            IN  /\ UNCHANGED <<segment_size_limit, log_files, index_files,
                               is_open, closed_segments, active_segment,
                               next_offset, next_id>>
                /\ info.next_offset = next_offset
                /\ info.total_segments = Len(info.segments)
                /\ Len(info.segments) = n + 1
                /\ \A i \in 1..n :
                      /\ info.segments[i].status = "closed"
                      /\ info.segments[i].base_offset =
                             closed_segments[i].base_offset
                      /\ info.segments[i].current_offset =
                             closed_segments[i].current_offset
                /\ info.segments[n + 1].status = "active"
                /\ info.segments[n + 1].base_offset =
                       active_segment.base_offset
                /\ info.segments[n + 1].current_offset =
                       active_segment.current_offset ]_vars

\* get_segment_info has just listed two closed segments and the active one
C16_Witness ==
    /\ last.op = "info"
    /\ Len(closed_segments) = 2
    /\ last.info.total_segments = 3
    /\ last.info.segments[3].status = "active"
    /\ last.info.next_offset = next_offset
    /\ next_offset >= 2

\* the segments (positions in the closed list, the active one last) whose
\* [base_offset, current_offset) range holds the offset
Claimants(offset) ==
    {i \in 1..Len(AllSegments) :
        /\ AllSegments[i].base_offset <= offset
        /\ offset < AllSegments[i].current_offset}

\* C20: under serialized calls, in every state of an open partition every
\* offset in [0, next_offset) lies in the range of exactly one segment, closed
\* or active, so consume never reaches its "not found in any segment" failure
\* for an offset that passed the range check.
C20_EveryOffsetInOneSegment ==
    is_open =>
        \A offset \in 0..(next_offset - 1) :
            /\ Cardinality(Claimants(offset)) = 1
            /\ ConsumeResult(offset).kind # "notfound"

\* a consume has just found offset 0 in the first of two closed segments
C20_Witness ==
    /\ is_open
    /\ last.op = "consume" /\ last.kind = "ok" /\ last.offset = 0
    /\ Len(closed_segments) >= 2
    /\ next_offset >= 3
    /\ Claimants(0) = {1} \/ Claimants(0) = {2}

\* a step of the consume endpoint
ApiConsumeStep == last'.op = "api_consume"

\* why the consume request of this step fails, "ok" if it does not
ConsumeFailure ==
    IF Key(last'.topic) \notin DOMAIN topics THEN "unregistered"
    ELSE ConsumeOn(PartitionAt(last'.topic), last'.offset).kind

\* C18: in the consume endpoint an out-of-range offset, an offset no segment
\* claims and a key that is not in the registry give the 404 response, and
\* every other failure, a corrupt segment included, gives the 500 response.
C18_ConsumeErrorMapping ==
    [][ ApiConsumeStep =>
            /\ ConsumeFailure \in {"range", "notfound", "unregistered"} =>
                   last'.kind = "404"
            /\ ConsumeFailure = "corrupt" => last'.kind = "500" ]_vars

\* a step of one of the boundary operations that name a topic-partition key
BoundaryStep == last'.op \in {"api_produce", "api_consume", "api_info"}

\* C19: a Partition is created on the first reference to a key through any
\* boundary operation (produce, consume, segment_info) and stays registered
\* until close_topic; in particular, with an empty registry a consume of an
\* offset stored on disk creates the Partition from disk and returns the
\* payload.
C19_LazyCreationOnAnyReference ==
    [][ /\ BoundaryStep => Key(last'.topic) \in DOMAIN topics'
        /\ (ApiConsumeStep /\ last'.topic = TopicA /\ topics = NoTopics /\ ~torn
              /\ last'.offset \in 0..(Len(produced) - 1)) =>
               /\ last'.kind = "200"
               /\ last'.payload = produced[last'.offset + 1].payload ]_vars

\* the same offset was returned by two produce calls
OffsetReturnedTwice ==
    \E i, j \in 1..Len(produced) :
        i < j /\ produced[i].offset = produced[j].offset

\* some segment does not start where the one before it ends
ChainNotContiguous ==
    \E i \in 1..Len(closed_segments) :
        AllSegments[i].current_offset # AllSegments[i + 1].base_offset

\* two segment objects have the same base_offset
SharedBaseOffset ==
    \E i, j \in 1..Len(AllSegments) :
        i < j /\ AllSegments[i].base_offset = AllSegments[j].base_offset

\* every produce call so far ran from its size check to its return with no
\* other call in flight
Serialized == \A t \in Threads : ~calls[t].overlap

\* C17: concurrent produce calls on one Partition are a data race: when two
\* calls interleave at the granularity of produce's steps, a state is
\* reachable in which the same offset is returned twice or the segment chain
\* is not contiguous or two segments have the same base_offset; as long as
\* no two calls overlap, no returned call leaves such a state.
C17_RaceNeedsInterleaving ==
    (Running = {} /\ Serialized) =>
        /\ ~OffsetReturnedTwice
        /\ ~ChainNotContiguous
        /\ ~SharedBaseOffset

\* two interleaved calls have both returned; the same offset was returned
\* twice and two segments share a base_offset
C17_Witness ==
    /\ Running = {}
    /\ ~Serialized
    /\ Len(produced) >= 2
    /\ OffsetReturnedTwice
    /\ SharedBaseOffset

\* C21: in every state of an open partition under serialized calls (after
\* open on an empty or a populated directory, after every produce with or
\* without a roll, after every consume) next_offset is the active segment's
\* current_offset.
C21_NextOffsetIsActiveCurrentOffset ==
    is_open => next_offset = active_segment.current_offset

\* a partition reopened on three segments, after a consume: the active
\* segment holds the last offset
C21_Witness ==
    /\ is_open
    /\ last.op = "consume" /\ last.kind = "ok"
    /\ Len(closed_segments) = 2
    /\ next_id = 4
    /\ active_segment.base_offset = 2
    /\ next_offset = 3
    /\ active_segment.current_offset = 3

\* C22: for every segment_size_limit >= 0 and every serialized sequence of
\* produce calls no two segments of the partition (closed list plus active)
\* have the same base_offset, so no two segment objects share a log file and
\* the number of segments the partition reports is the number of log files
\* in its directory.
C22_SegmentsHaveDistinctBases ==
    is_open =>
        /\ \A i, j \in 1..Len(AllSegments) :
              i # j => AllSegments[i].base_offset # AllSegments[j].base_offset
        /\ GetSegmentCount(PState) = Cardinality(DOMAIN log_files)

\* what a produce call gives its caller and the log: the offset returned, the
\* segment written, the log files and next_offset afterwards
ProduceOutcome(r) ==
    [ offset |-> r.offset,
      segment |-> SegmentShape(r.active),
      closed |-> [i \in 1..Len(r.closed) |-> SegmentShape(r.closed[i])],
      files |-> r.files,
      next_offset |-> r.next_offset ]

\* the outcomes of produce(m1) and of produce(m1); produce(m2) on partition st
LaterProduces(st) ==
    [m1 \in Payloads |->
        LET r1 == ProduceOn(st, segment_size_limit, m1)
        IN  [ first |-> ProduceOutcome(r1),
              second |-> [m2 \in Payloads |->
                             ProduceOutcome(ProduceOn(r1, segment_size_limit, m2))] ]]

\* C23: consume, whether it succeeds or fails, leaves next_offset, the closed
\* list, the identity of the active segment, every segment's current_offset
\* and every log file unchanged, and does not change the offset returned by,
\* the segment chosen by, or the log bytes written by a later produce.
C23_ConsumeLeavesProduceAlone ==
    [][ ConsumeStep =>
            /\ next_offset' = next_offset
            /\ SegmentShapes' = SegmentShapes
            /\ log_files' = log_files
            /\ LaterProduces(PState') = LaterProduces(PState) ]_vars

\* a consume has just left the cursor of the active segment before the end
\* of its log file, which holds at least two frames
C23_Witness ==
    /\ is_open
    /\ last.op = "consume" /\ last.kind = "ok"
    /\ active_segment.pos < Len(ActiveLog)
    /\ active_segment.current_offset >= active_segment.base_offset + 2
    /\ last.offset >= active_segment.base_offset

\* a step of the delete endpoint
DeleteStep == last'.op = "delete"

\* the registered partitions whose topic is the given one
KeysOfTopic(topic) == {k \in DOMAIN topics : topics[k] = topic}

\* C24: close_topic(T) closes and unregisters exactly the partitions whose
\* topic is T: every partition of another topic T' (also one whose name
\* starts with "T-", such as "a-b" when T = "a") stays open, stays in the
\* registry and stays listed by list_topics.
C24_CloseTopicExact ==
    [][ DeleteStep =>
            /\ \A k \in KeysOfTopic(last'.topic) : k \notin DOMAIN topics'
            /\ \A k \in DOMAIN topics \ KeysOfTopic(last'.topic) :
                  /\ k \in DOMAIN topics'
                  /\ topics'[k] = topics[k]
                  /\ topics[k] \in ListedTopics'
                  /\ topics[k] = TopicA => is_open' ]_vars

====
